---- MODULE Spec2Model ----
(***************************************************************************)
(* Cover-art candidate analysis and selection of mpv_music_wrapper.py.     *)
(*                                                                         *)
(* Strings are sequences of one-character strings, so that prefix tests,   *)
(* substring tests, tokenisation and lexical comparison are computed the   *)
(* way the Python code computes them.  Paths are sequences of segments.    *)
(***************************************************************************)
EXTENDS Integers, Sequences, FiniteSets, TLC

VARIABLES
    pc,            \* position inside the modelled call
    candidates,    \* List[CoverCandidate] handed to select_best_cover
    detail_lines,  \* List[str] of debug lines handed to select_best_cover
    best,          \* winner returned by the last select_best_cover call
    cover_meta,    \* metaString returned by the last call
    cover_detail,  \* formatted report returned by the last call
    prev_best,     \* winner returned by the call before the last one
    fs,            \* image files on disk (path, probe result, size)
    env,           \* track directory, album root and extraction outcome
    cand_paths,    \* candidates_paths returned by gather_image_candidates
    embedded_path, \* embedded path returned by gather_image_candidates
    albums,        \* planner.albums / albums_list of choose_album_for_play
    recent_albums, \* planner.recent_albums, oldest first
    recent_albums_size,  \* planner.recent_albums_size / recent_size
    album_choice,  \* value returned by choose_album_for_play
    total_albums,  \* argument of compute_recent_albums_size
    album_by_index,     \* QueueState.album_by_index: entry i + 1 for index i
    total_tracks,  \* total of main: the number of tracks to play
    next_to_prepare,    \* QueueState.next_to_prepare
    highest_appended,   \* QueueState.highest_appended
    current_pos,        \* QueueState.current_pos
    last_cleaned,  \* last_cleaned of main
    staged,        \* indices i whose staging directory tmp_root/i exists
    tmp_root_exists,    \* the staging root exists
    ipc_path_exists,    \* the IPC socket exists
    mpv_alive,     \* the player process is running
    loads,         \* the loadfile commands sent by append_to_mpv, in order
    mpv_playlist,  \* the player's playlist: the loadfile commands it took
    mpv_pos        \* the player's playlist-pos: None or <<n>>

\* the variables of cover selection
coverVars == <<candidates, detail_lines, best, cover_meta, cover_detail,
               prev_best, fs, env, cand_paths, embedded_path>>

\* the variables of the album planner
planVars == <<albums, recent_albums, recent_albums_size, album_choice,
              total_albums, album_by_index>>

\* the variables of the playback loop
mainVars == <<total_tracks, next_to_prepare, highest_appended, current_pos,
              last_cleaned, staged, tmp_root_exists, ipc_path_exists,
              mpv_alive, loads, mpv_playlist, mpv_pos>>

vars == <<pc, coverVars, planVars, mainVars>>

nonCoverVars == <<planVars, mainVars>>

nonPlanVars == <<coverVars, mainVars>>

nonMainVars == <<coverVars, planVars>>

-----------------------------------------------------------------------------
(* Bounds of the model *)

MaxCands == 2

MaxFiles == 2

\* longest albums_list handed to choose_album_for_play
MaxAlbums == 3

\* longest recent_albums history
MaxRecent == 3

\* largest library size handed to compute_recent_albums_size
MaxTotalAlbums == 2100

\* most tracks of an album or playlist
MaxTracks == 4

-----------------------------------------------------------------------------
(* Program constants *)

SQUARISH_PCT == 13

ALBUM_OVERLAP_PCT == 50

TINY_FRONT_AREA == 90000

AREA_THRESHOLD_PCT == 75

RECENT_ALBUMS_MIN == 20

RECENT_ALBUMS_MAX == 200

RECENT_ALBUMS_PCT == 10

BUFFER_AHEAD == 1

PREFERRED_IMAGE_KEYWORDS ==
    << <<"c","o","v","e","r">>, <<"f","r","o","n","t">>,
       <<"f","o","l","d","e","r">> >>

NON_FRONT_IMAGE_KEYWORDS ==
    { <<"b","a","c","k">>, <<"t","r","a","y">>, <<"c","d">>,
      <<"d","i","s","c">>, <<"i","n","l","a","y">>, <<"i","n","l","e","t">>,
      <<"i","n","s","e","r","t">>, <<"b","o","o","k","l","e","t">>,
      <<"b","o","o","k">>, <<"s","p","i","n","e">>, <<"r","e","a","r">>,
      <<"i","n","s","i","d","e">>,
      <<"t","r","a","c","k","l","i","s","t","i","n","g">> }

AUDIO_EXTS ==
    { <<"f","l","a","c">>, <<"m","p","3">>, <<"o","g","g">>,
      <<"o","p","u","s">>, <<"m","4","a">>, <<"a","l","a","c">>,
      <<"w","a","v">>, <<"a","i","f","f">>, <<"w","v">> }

None == <<>>

\* no cover selection is under way
CoverIdle ==
    /\ candidates = <<>>
    /\ detail_lines = <<>>
    /\ best = None
    /\ cover_meta = <<>>
    /\ cover_detail = <<>>
    /\ prev_best = None
    /\ fs = {}
    /\ env = <<>>
    /\ cand_paths = <<>>
    /\ embedded_path = None

\* the playback loop has not been set up
MainIdle ==
    /\ total_tracks = 0
    /\ next_to_prepare = 0
    /\ highest_appended = 0 - 1
    /\ current_pos = 0 - 1
    /\ last_cleaned = 0 - 1
    /\ staged = {}
    /\ tmp_root_exists = FALSE
    /\ ipc_path_exists = FALSE
    /\ mpv_alive = FALSE
    /\ loads = <<>>
    /\ mpv_playlist = <<>>
    /\ mpv_pos = None

\* no album planner exists
PlanIdle ==
    /\ albums = <<>>
    /\ recent_albums = <<>>
    /\ recent_albums_size = 0
    /\ album_choice = None
    /\ album_by_index = <<>>
    /\ total_albums = 0

-----------------------------------------------------------------------------
(* Characters and strings *)

\* The characters the model uses, in code-point order.
Alphabet ==
    << " ", "*", "-", ".", "/",
       "0", "1", "2", "3", "4", "5", "6", "7", "8", "9", "=",
       "A", "B", "C", "D", "E", "F", "G", "H", "I", "J", "K", "L", "M",
       "N", "O", "P", "Q", "R", "S", "T", "U", "V", "W", "X", "Y", "Z",
       "[", "]", "_",
       "a", "b", "c", "d", "e", "f", "g", "h", "i", "j", "k", "l", "m",
       "n", "o", "p", "q", "r", "s", "t", "u", "v", "w", "x", "y", "z", "|" >>

OrdTable ==
    [c \in {Alphabet[i] : i \in 1..Len(Alphabet)} |->
        CHOOSE i \in 1..Len(Alphabet) : Alphabet[i] = c]

Ord(c) == OrdTable[c]

IsDigit(c) == Ord(c) >= Ord("0") /\ Ord(c) <= Ord("9")

IsUpper(c) == Ord(c) >= Ord("A") /\ Ord(c) <= Ord("Z")

IsLower(c) == Ord(c) >= Ord("a") /\ Ord(c) <= Ord("z")

IsAlnum(c) == IsDigit(c) \/ IsUpper(c) \/ IsLower(c)

LowerChar(c) == IF IsUpper(c) THEN Alphabet[Ord(c) - Ord("A") + Ord("a")] ELSE c

LowerStr(s) == [i \in 1..Len(s) |-> LowerChar(s[i])]

DigitVal(c) == Ord(c) - Ord("0")

\* str < str: code-point lexicographic order, a proper prefix is smaller.
RECURSIVE StrLess(_, _)
StrLess(a, b) ==
    IF b = <<>> THEN FALSE
    ELSE IF a = <<>> THEN TRUE
    ELSE IF Ord(a[1]) # Ord(b[1]) THEN Ord(a[1]) < Ord(b[1])
    ELSE StrLess(Tail(a), Tail(b))

\* line.startswith(prefix)
StartsWith(s, prefix) ==
    /\ Len(prefix) <= Len(s)
    /\ SubSeq(s, 1, Len(prefix)) = prefix

\* sub in s
Contains(s, sub) ==
    \E i \in 0..(Len(s) - Len(sub)) : SubSeq(s, i + 1, i + Len(sub)) = sub

\* str(n) of a non-negative integer
RECURSIVE Digits(_)
Digits(n) ==
    IF n < 10 THEN <<Alphabet[Ord("0") + n]>>
    ELSE Digits(n \div 10) \o <<Alphabet[Ord("0") + (n % 10)]>>

\* int(s) of a digit string
RECURSIVE IntOf(_)
IntOf(s) ==
    IF s = <<>> THEN 0
    ELSE 10 * IntOf(SubSeq(s, 1, Len(s) - 1)) + DigitVal(s[Len(s)])

\* tuple < tuple on integer tuples of equal length
RECURSIVE IntSeqLess(_, _)
IntSeqLess(a, b) ==
    IF a = <<>> \/ b = <<>> THEN FALSE
    ELSE IF a[1] # b[1] THEN a[1] < b[1]
    ELSE IntSeqLess(Tail(a), Tail(b))

-----------------------------------------------------------------------------
(* Cover selection helpers *)

S_path_eq == <<"p","a","t","h","=">>

S_EMBEDDED == <<"E","M","B","E","D","D","E","D">>

S_embedded == <<"e","m","b","e","d","d","e","d">>

S_external == <<"e","x","t","e","r","n","a","l">>

S_selected == <<"[","*","]"," ">>

S_neutral == <<"[", " ", "]", " ">>

S_no_images == <<"[", " ", "]", " ", "n","o"," ","i","m","a","g","e","s"," ",
                 "f","o","u","n","d">>

\* is_squarish: 1 - pct <= width / height <= 1 + pct, in integers
is_squarish(width, height) ==
    IF width <= 0 \/ height <= 0 THEN FALSE
    ELSE /\ (100 - SQUARISH_PCT) * height <= 100 * width
         /\ 100 * width <= (100 + SQUARISH_PCT) * height

is_portraitish(width, height) ==
    IF width <= 0 \/ height <= 0 THEN FALSE
    ELSE height > width

\* extract_trailing_int: the last run of digits of the name, None (<<>>) or <<n>>
extract_trailing_int(name) ==
    LET digs == {i \in 1..Len(name) : IsDigit(name[i])}
    IN  IF digs = {} THEN None
        ELSE LET e == CHOOSE i \in digs : \A j \in digs : j <= i
                 s == CHOOSE i \in 1..e :
                        /\ \A j \in i..e : IsDigit(name[j])
                        /\ (i = 1 \/ ~IsDigit(name[i - 1]))
             IN  <<IntOf(SubSeq(name, s, e))>>

\* Faulty variant of trailing_key: a name without digits counts as number 0
trailing_key_NoDigitsFirst(name) ==
    LET num == extract_trailing_int(name)
    IN  IF num # None THEN <<0, num[1]>> ELSE <<0, 0>>

\* trailing_key: the number, or float("inf") as the pair <<1, 0>> that sorts
\* after every number <<0, n>>
trailing_key(name) ==
    LET num == extract_trailing_int(name)
    IN  IF num # None THEN <<0, num[1]>> ELSE <<1, 0>>

\* Faulty variant of Bucket1Key: scope ahead of area
Bucket1Key_ScopeFirst(c) ==
    <<c.scope_rank, 0 - c.area, c.kw_rank>> \o trailing_key(c.name)

\* sort key of choose_bucket1, without its last component c.name
Bucket1Key(c) ==
    <<0 - c.area, c.scope_rank, c.kw_rank>> \o trailing_key(c.name)

\* Faulty variant of Bucket2CloseKey: area still takes part in the key
Bucket2CloseKey_KeepsArea(c) ==
    <<c.scope_rank, 0 - c.area, 0 - c.name_token_score, c.kw_rank>>
        \o trailing_key(c.name)

\* sort key of choose_bucket2 when the squarish areas are close
Bucket2CloseKey(c) ==
    <<c.scope_rank, 0 - c.name_token_score, c.kw_rank>> \o trailing_key(c.name)

\* sort key of choose_bucket2 otherwise
Bucket2AreaKey(c) ==
    <<c.scope_rank, 0 - c.area, 0 - c.name_token_score, c.kw_rank>>
        \o trailing_key(c.name)

\* key(a) < key(b) for a key whose last component is the name
KeyLess(ka, na, kb, nb) ==
    \/ IntSeqLess(ka, kb)
    \/ ka = kb /\ StrLess(na, nb)

\* sorted(lst, key=...)[0], keys[i] being the key of lst[i] without the
\* name: the sort is stable, so the result is the first element of lst that
\* no element precedes in the key order
SortedFirst(lst, keys) ==
    LET isMin(i) == \A j \in 1..Len(lst) :
                        ~KeyLess(keys[j], lst[j].name, keys[i], lst[i].name)
        first == CHOOSE i \in 1..Len(lst) :
                        isMin(i) /\ \A j \in 1..(i - 1) : ~isMin(j)
    IN  lst[first]

SortedFirstBucket1(lst) ==
    SortedFirst(lst, [i \in 1..Len(lst) |-> Bucket1Key(lst[i])])

SortedFirstClose(lst) ==
    SortedFirst(lst, [i \in 1..Len(lst) |-> Bucket2CloseKey(lst[i])])

SortedFirstArea(lst) ==
    SortedFirst(lst, [i \in 1..Len(lst) |-> Bucket2AreaKey(lst[i])])

choose_bucket1(lst) ==
    IF lst = <<>> THEN None
    ELSE <<SortedFirstBucket1(lst)>>

\* Faulty variant of choose_bucket2: nothing is chosen when no candidate is
\* squarish
choose_bucket2_SquarishOnly(lst) ==
    LET isSq(c) == is_squarish(c.width, c.height)
    IN  IF SelectSeq(lst, isSq) = <<>> THEN None
        ELSE <<SortedFirstArea(SelectSeq(lst, isSq))>>

\* Faulty variant of choose_bucket2: no preference for squarish candidates
choose_bucket2_NoSquarishFilter(lst) ==
    IF lst = <<>> THEN None
    ELSE <<SortedFirstArea(lst)>>

choose_bucket2(lst) ==
    IF lst = <<>> THEN None
    ELSE LET isSq(c) == is_squarish(c.width, c.height)
             squarish == SelectSeq(lst, isSq)
         IN  IF squarish # <<>>
             THEN LET areas == {squarish[i].area : i \in 1..Len(squarish)}
                      max_area == CHOOSE a \in areas : \A b \in areas : b <= a
                      min_area == CHOOSE a \in areas : \A b \in areas : a <= b
                      close_enough == min_area * 100 >= max_area * AREA_THRESHOLD_PCT
                  IN  IF close_enough
                      THEN <<SortedFirstClose(squarish)>>
                      ELSE <<SortedFirstArea(squarish)>>
             ELSE <<SortedFirstArea(lst)>>

Bucket1Of(cands) == LET keep(c) == c.bucket = 1 IN SelectSeq(cands, keep)

Bucket2Of(cands) == LET keep(c) == c.bucket # 1 IN SelectSeq(cands, keep)

NonTiny(lst) == LET keep(c) == c.area >= TINY_FRONT_AREA IN SelectSeq(lst, keep)

AllTiny(lst) == \A i \in 1..Len(lst) : lst[i].area < TINY_FRONT_AREA

\* Faulty variant of ChooseBest: the tiny-floor fallback is missing
ChooseBest_NoFallback(cands) ==
    IF Bucket1Of(cands) # <<>> THEN choose_bucket1(Bucket1Of(cands))
    ELSE choose_bucket2(Bucket2Of(cands))

\* Faulty variant of ChooseBest: the fallback does not look at the areas of
\* bucket 1
ChooseBest_AlwaysFallback(cands) ==
    IF Bucket1Of(cands) # <<>>
    THEN IF NonTiny(Bucket2Of(cands)) # <<>>
         THEN choose_bucket2(NonTiny(Bucket2Of(cands)))
         ELSE choose_bucket1(Bucket1Of(cands))
    ELSE choose_bucket2(Bucket2Of(cands))

\* the bucket decision of select_best_cover
ChooseBest(cands) ==
    LET bucket1 == Bucket1Of(cands)
        bucket2 == Bucket2Of(cands)
        non_tiny_bucket2 == NonTiny(bucket2)
    IN  IF bucket1 # <<>>
        THEN IF AllTiny(bucket1) /\ non_tiny_bucket2 # <<>>
             THEN choose_bucket2(non_tiny_bucket2)
             ELSE choose_bucket1(bucket1)
        ELSE choose_bucket2(bucket2)

Bar == <<"|">>

\* the metaString of a winner
CoverMeta(b) ==
    b.src_type \o Bar \o Digits(b.width) \o Bar \o Digits(b.height) \o Bar
        \o Digits(b.area) \o Bar \o Digits(b.pref_kw_count + b.name_token_score)
        \o Bar \o Digits(b.size_bytes)

\* whether the report marks a debug line as the winner's
LineIsSelected(b, line) ==
    \/ b.is_embedded /\ Contains(line, S_EMBEDDED)
    \/ StartsWith(line, S_path_eq \o b.rel_display)

\* the report: the lines that "\n".join puts together, kept as a sequence
FormatReport(b, lines) ==
    IF lines = <<>> THEN <<S_no_images>>
    ELSE [i \in 1..Len(lines) |->
            IF LineIsSelected(b, lines[i]) THEN S_selected \o lines[i]
            ELSE S_neutral \o lines[i]]

\* Faulty variant of select_best_cover: an empty report for an empty list
select_best_cover_EmptyReport(cands, lines) ==
    IF cands = <<>>
    THEN [best |-> None, cover_meta |-> <<>>, cover_detail |-> <<>>]
    ELSE [best |-> ChooseBest(cands),
          cover_meta |-> CoverMeta(ChooseBest(cands)[1]),
          cover_detail |-> FormatReport(ChooseBest(cands)[1], lines)]

\* select_best_cover: (best, cover_meta, cover_detail)
select_best_cover(cands, lines) ==
    IF cands = <<>>
    THEN [best |-> None, cover_meta |-> <<>>, cover_detail |-> <<S_no_images>>]
    ELSE LET b == ChooseBest(cands)
         IN  IF b # None
             THEN [best |-> b, cover_meta |-> CoverMeta(b[1]),
                   cover_detail |-> FormatReport(b[1], lines)]
             ELSE [best |-> None, cover_meta |-> <<>>,
                   cover_detail |-> <<S_no_images>>]

-----------------------------------------------------------------------------
(* Filename analysis *)

\* Whether the two re.sub calls of normalize_name_tokens put a space before
\* s[i]: after a lower-case letter when s[i] is upper-case, and between two
\* upper-case letters when a lower-case letter follows.
CamelBreak(s, i) ==
    /\ i > 1
    /\ \/ IsLower(s[i - 1]) /\ IsUpper(s[i])
       \/ /\ IsUpper(s[i - 1]) /\ IsUpper(s[i])
          /\ i < Len(s) /\ IsLower(s[i + 1])

RECURSIVE TokScan(_, _, _)
TokScan(s, i, cur) ==
    LET flush == IF cur = <<>> THEN <<>> ELSE <<cur>>
    IN  IF i > Len(s) THEN flush
        ELSE IF ~IsAlnum(s[i]) THEN flush \o TokScan(s, i + 1, <<>>)
        ELSE IF CamelBreak(s, i)
             THEN flush \o TokScan(s, i + 1, <<LowerChar(s[i])>>)
        ELSE TokScan(s, i + 1, Append(cur, LowerChar(s[i])))

normalize_name_tokens(name) == TokScan(name, 1, <<>>)

IsAllDigits(t) == \A i \in 1..Len(t) : IsDigit(t[i])

clean_album_tokens(name) ==
    LET keep(t) == /\ t # <<>>
                   /\ ~IsAllDigits(t)
                   /\ Len(t) > 2
                   /\ t \notin AUDIO_EXTS
    IN  SelectSeq(normalize_name_tokens(name), keep)

SeqToSet(q) == {q[i] : i \in 1..Len(q)}

token_overlap_score(base, target) ==
    Cardinality({i \in 1..Len(base) : base[i] # <<>> /\ base[i] \in SeqToSet(target)})

\* album_overlap_ratio: min(1.0, matches / len(album_tokens)) as the fraction
\* <<numerator, denominator>>; 0.0 is <<0, 1>> and 1.0 is <<1, 1>>
album_overlap_ratio(base_tokens, album_tokens) ==
    IF album_tokens = <<>> THEN <<0, 1>>
    ELSE LET matches == token_overlap_score(base_tokens, album_tokens)
         IN  IF matches >= Len(album_tokens) THEN <<1, 1>>
             ELSE <<matches, Len(album_tokens)>>

has_blocking_non_front(tokens, album_tokens) ==
    \E i \in 1..Len(tokens) :
        /\ tokens[i] \in NON_FRONT_IMAGE_KEYWORDS
        /\ tokens[i] \notin SeqToSet(album_tokens)

\* keyword_rank: <<count, rank>>, rank a 0-based index or len + 1
keyword_rank(tokens) ==
    LET hits == {idx \in 1..Len(PREFERRED_IMAGE_KEYWORDS) :
                    PREFERRED_IMAGE_KEYWORDS[idx] \in SeqToSet(tokens)}
    IN  <<Cardinality(hits),
          IF hits = {} THEN Len(PREFERRED_IMAGE_KEYWORDS) + 1
          ELSE (CHOOSE i \in hits : \A j \in hits : i <= j) - 1>>

\* f.name.lower().rsplit(".", 1)[0]
BaseNoExt(name) ==
    LET lower == LowerStr(name)
        dots == {i \in 1..Len(lower) : lower[i] = "."}
    IN  IF dots = {} THEN lower
        ELSE SubSeq(lower, 1, (CHOOSE i \in dots : \A j \in dots : j <= i) - 1)

-----------------------------------------------------------------------------
(* select_best_cover on pre-populated candidates, as the unit tests call it *)

S_embedded_cover_png ==
    <<"e","m","b","e","d","d","e","d","-","c","o","v","e","r",".","p","n","g">>

S_front_tif == <<"f","r","o","n","t",".","t","i","f">>

S_track_folder == <<"t","r","a","c","k","-","f","o","l","d","e","r">>

S_album_root == <<"a","l","b","u","m","-","r","o","o","t">>

S_other_disc == <<"o","t","h","e","r","-","d","i","s","c">>

Slash == <<"/">>

\* str(path) of a relative path: its segments joined by "/"
RECURSIVE JoinPath(_)
JoinPath(segs) ==
    IF segs = <<>> THEN <<>>
    ELSE IF Len(segs) = 1 THEN segs[1]
    ELSE segs[1] \o Slash \o JoinPath(Tail(segs))

\* Where a pre-populated candidate comes from: the embedded extraction, or
\* an image file; two files share the name front.tif in different folders.
SelOrigins ==
    << [path |-> <<S_embedded_cover_png>>, embedded |-> TRUE],
       [path |-> << <<"a">>, S_front_tif >>, embedded |-> FALSE],
       [path |-> << <<"b">>, S_front_tif >>, embedded |-> FALSE] >>

\* Probed geometry: tiny square, square at the tiny-front floor, a square
\* within the 75% band of it, and a wide image of twice the floor's area.
SelDims == { <<200, 200>>, <<300, 300>>, <<330, 360>>, <<600, 300>> }

\* bucket 3 is the legacy third tier that callers may still pass
SelBuckets == {1, 2, 3}

SelScores == {0, 1}

\* A CoverCandidate with all fields populated
MakeCandidate(origin, dims, bucket, score) ==
    LET name == origin.path[Len(origin.path)]
        kw == keyword_rank(normalize_name_tokens(BaseNoExt(name)))
    IN  [path |-> origin.path,
         width |-> dims[1],
         height |-> dims[2],
         area |-> dims[1] * dims[2],
         size_bytes |-> 0,
         pref_kw_count |-> kw[1],
         name_token_score |-> score,
         has_non_front |-> FALSE,
         bucket |-> bucket,
         kw_rank |-> kw[2],
         scope_rank |-> IF origin.embedded THEN 0 ELSE 1,
         scope |-> IF origin.embedded THEN S_embedded ELSE S_track_folder,
         src_type |-> IF origin.embedded THEN S_embedded ELSE S_external,
         name |-> name,
         album_tokens |-> <<>>,
         rel_display |-> IF origin.embedded THEN S_EMBEDDED
                         ELSE JoinPath(origin.path),
         overlap_ratio |-> <<0, 1>>,
         is_embedded |-> origin.embedded]

\* The pre-populated candidates of one origin
SelCandidatesOf ==
    [o \in 1..Len(SelOrigins) |->
        {MakeCandidate(SelOrigins[o], d, b, sc) :
            d \in SelDims, b \in SelBuckets, sc \in SelScores}]

\* The candidate lists of at most MaxCands candidates with distinct paths,
\* listed in the order of SelOrigins
SelLists ==
    LET n == Len(SelOrigins)
        picks == {pick \in SUBSET (1..n) : Cardinality(pick) <= MaxCands}
        \* the k-th smallest origin of a pick
        nth(pick, k) == CHOOSE o \in pick :
                            Cardinality({x \in pick : x < o}) = k - 1
    IN  UNION { {lst \in [1..Cardinality(pick) -> UNION {SelCandidatesOf[o] : o \in pick}] :
                    \A k \in 1..Cardinality(pick) :
                        lst[k] \in SelCandidatesOf[nth(pick, k)]}
                : pick \in picks }

SelInit ==
    /\ pc = "ready"
    /\ candidates \in SelLists
    /\ detail_lines = <<>>
    /\ best = None
    /\ cover_meta = <<>>
    /\ cover_detail = <<>>
    /\ prev_best = None
    /\ fs = <<>>
    /\ env = <<>>
    /\ cand_paths = <<>>
    /\ embedded_path = None
    /\ PlanIdle
    /\ MainIdle

\* One call of select_best_cover on the current list
Select ==
    /\ pc \in {"ready", "reordered"}
    /\ LET r == select_best_cover(candidates, detail_lines)
       IN  /\ best' = r.best
           /\ cover_meta' = r.cover_meta
           /\ cover_detail' = r.cover_detail
    /\ prev_best' = best
    /\ pc' = IF pc = "ready" THEN "selected" ELSE "reselected"
    /\ UNCHANGED nonCoverVars
    /\ UNCHANGED <<candidates, detail_lines, fs, env, cand_paths, embedded_path>>

\* The caller hands the same candidates over in another discovery order
Reorder ==
    /\ pc = "selected"
    /\ \E perm \in [1..Len(candidates) -> 1..Len(candidates)] :
        /\ \A i \in 1..Len(candidates) : \E j \in 1..Len(candidates) : perm[j] = i
        /\ candidates' = [i \in 1..Len(candidates) |-> candidates[perm[i]]]
    /\ pc' = "reordered"
    /\ UNCHANGED nonCoverVars
    /\ UNCHANGED <<detail_lines, best, cover_meta, cover_detail, prev_best,
                   fs, env, cand_paths, embedded_path>>

Next == Select \/ Reorder

Spec == SelInit /\ [][Next]_vars

\* File names that tie on the keyword rank and differ in their number or
\* only in their spelling, and one name with another keyword
TieNames ==
    { <<"c","o","v","e","r",".","j","p","g">>,
      <<"c","o","v","e","r","-","2",".","j","p","g">>,
      <<"c","o","v","e","r","-","1","0",".","j","p","g">>,
      <<"2","-","c","o","v","e","r",".","j","p","g">>,
      <<"f","r","o","n","t","-","2",".","j","p","g">> }

\* A bucket-1 candidate of the given name found in the track folder (rank 1)
\* or at the album root (rank 2)
TieCandidate(name, rank, dims) ==
    [MakeCandidate([path |-> <<IF rank = 1 THEN <<"a">> ELSE <<"b">>, name>>,
                    embedded |-> FALSE], dims, 1, 0)
        EXCEPT !.scope_rank = rank,
               !.scope = IF rank = 1 THEN S_track_folder ELSE S_album_root]

TieCandidates ==
    {TieCandidate(n, r, d) :
        n \in TieNames, r \in {1, 2}, d \in {<<300, 300>>, <<400, 400>>}}

\* candidate lists of at most MaxCands bucket-1 candidates with distinct paths
TieLists ==
    UNION { {lst \in [1..k -> TieCandidates] :
                \A i \in 1..k : \A j \in 1..k :
                    lst[i].path = lst[j].path => i = j}
            : k \in 0..MaxCands }

TieInit ==
    /\ pc = "ready"
    /\ candidates \in TieLists
    /\ detail_lines = <<>>
    /\ best = None
    /\ cover_meta = <<>>
    /\ cover_detail = <<>>
    /\ prev_best = None
    /\ fs = <<>>
    /\ env = <<>>
    /\ cand_paths = <<>>
    /\ embedded_path = None
    /\ PlanIdle
    /\ MainIdle

SpecTie == TieInit /\ [][Next]_vars

-----------------------------------------------------------------------------
(* Paths and the candidate collector *)

IMAGE_EXTS ==
    { <<"j","p","g">>, <<"j","p","e","g">>, <<"p","n","g">>,
      <<"w","e","b","p">>, <<"g","i","f">>, <<"b","m","p">>,
      <<"t","i","f","f">>, <<"t","i","f">>, <<"s","v","g">> }

\* str(path) of an absolute path
PathStr(p) == Slash \o JoinPath(p)

\* whether p.relative_to(root) succeeds
IsUnder(p, root) ==
    /\ Len(root) <= Len(p)
    /\ SubSeq(p, 1, Len(root)) = root

\* p.relative_to(root).parts
RelativeTo(p, root) == SubSeq(p, Len(root) + 1, Len(p))

\* str(p.relative_to(root))
RelStr(p, root) ==
    IF Len(p) = Len(root) THEN <<".">> ELSE JoinPath(RelativeTo(p, root))

PathName(p) == p[Len(p)]

PathParent(p) == SubSeq(p, 1, Len(p) - 1)

\* lower_ext: path.suffix[1:].lower()
lower_ext(p) ==
    LET name == PathName(p)
        dots == {i \in 2..Len(name) : name[i] = "."}
    IN  IF dots = {} THEN <<>>
        ELSE LowerStr(SubSeq(name,
                             (CHOOSE i \in dots : \A j \in dots : j <= i) + 1,
                             Len(name)))

is_image(p) == lower_ext(p) \in IMAGE_EXTS

\* find_images_recursive: the image files below dir_path; os.walk fixes no
\* order among them
find_images_recursive(files, dir_path) ==
    {f.path : f \in {g \in files : IsUnder(g.path, dir_path) /\ is_image(g.path)}}

\* the length of the longest common prefix of two directories
CommonLen(a, b) ==
    LET m == IF Len(a) < Len(b) THEN Len(a) ELSE Len(b)
        ks == {k \in 0..m : SubSeq(a, 1, k) = SubSeq(b, 1, k)}
    IN  CHOOSE k \in ks : \A j \in ks : j <= k

\* The orders in which os.walk can report the files S: top-down, the files
\* of a directory before those of its subdirectories, each subtree in one
\* piece; the order among the entries of one directory is the file system's.
Orderings(S) ==
    {q \in [1..Cardinality(S) -> S] :
        /\ \A i \in 1..Cardinality(S) : \A j \in 1..Cardinality(S) :
              i # j => q[i] # q[j]
        /\ \A i \in 1..Cardinality(S) : \A j \in (i + 1)..Cardinality(S) :
              LET di == PathParent(q[i])
                  dj == PathParent(q[j])
              IN  /\ ~(Len(dj) < Len(di) /\ IsUnder(di, dj))
                  /\ \A k \in (i + 1)..(j - 1) :
                        CommonLen(di, dj) <= CommonLen(di, PathParent(q[k]))}

\* is_multi of select_cover_for_track and analyze_candidates
IsMulti(album_root, dir_path) ==
    /\ album_root # None
    /\ dir_path # album_root
    /\ StartsWith(PathStr(dir_path), PathStr(album_root))

\* display_path
display_path(p, display_root) ==
    IF p = display_root THEN <<".">>
    ELSE IF IsUnder(p, display_root) THEN RelStr(p, display_root)
    ELSE PathStr(p)

\* looks_like_disc_folder: re.match(r"(disc|cd|disk)[ _-]*\d+", name.lower())
looks_like_disc_folder(name) ==
    LET lowered == LowerStr(name)
        seps == {" ", "_", "-"}
    IN  \E pre \in { <<"d","i","s","c">>, <<"c","d">>, <<"d","i","s","k">> } :
            /\ StartsWith(lowered, pre)
            /\ \E d \in (Len(pre) + 1)..Len(lowered) :
                /\ IsDigit(lowered[d])
                /\ \A k \in (Len(pre) + 1)..(d - 1) : lowered[k] \in seps

\* Faulty variant of classify_scope: the comparison with the extracted
\* frame's path comes after the test for a known album root
classify_scope_AlbumRootFirst(candidate, emb_path, dir_path, album_root, is_multi) ==
    IF album_root = None
    THEN IF StartsWith(PathStr(candidate), PathStr(dir_path))
         THEN <<S_track_folder, 1, S_external>>
         ELSE <<S_album_root, 2, S_external>>
    ELSE IF emb_path # None /\ PathStr(candidate) = PathStr(emb_path)
    THEN <<S_embedded, 0, S_embedded>>
    ELSE IF ~is_multi
    THEN <<S_track_folder, 1, S_external>>
    ELSE IF ~IsUnder(candidate, album_root)
    THEN <<S_album_root, 2, S_external>>
    ELSE IF looks_like_disc_folder(RelativeTo(candidate, album_root)[1])
    THEN <<S_other_disc, 3, S_external>>
    ELSE <<S_album_root, 2, S_external>>

\* classify_scope: <<scope, scope_rank, src_type>>
classify_scope(candidate, emb_path, dir_path, album_root, is_multi) ==
    IF emb_path # None /\ PathStr(candidate) = PathStr(emb_path)
    THEN <<S_embedded, 0, S_embedded>>
    ELSE IF album_root = None
    THEN IF StartsWith(PathStr(candidate), PathStr(dir_path))
         THEN <<S_track_folder, 1, S_external>>
         ELSE <<S_album_root, 2, S_external>>
    ELSE IF ~is_multi
    THEN IF StartsWith(PathStr(candidate), PathStr(album_root))
         THEN <<S_track_folder, 1, S_external>>
         ELSE <<S_album_root, 2, S_external>>
    ELSE LET track_disc ==
                 IF IsUnder(dir_path, album_root)
                    /\ RelativeTo(dir_path, album_root) # <<>>
                 THEN <<RelativeTo(dir_path, album_root)[1]>>
                 ELSE None
         IN  IF ~IsUnder(candidate, album_root)
             THEN <<S_album_root, 2, S_external>>
             ELSE LET parts == RelativeTo(candidate, album_root)
                  IN  IF parts # <<>>
                      THEN IF track_disc # None /\ parts[1] = track_disc[1]
                           THEN <<S_track_folder, 1, S_external>>
                           ELSE IF looks_like_disc_folder(parts[1])
                           THEN <<S_other_disc, 3, S_external>>
                           ELSE <<S_album_root, 2, S_external>>
                      ELSE <<S_album_root, 2, S_external>>

\* f"{num / den:.{places}f}": the quotient rounded to the given number of
\* decimals, ties to even
Fixed(num, den, places) ==
    LET scale == IF places = 1 THEN 10 ELSE 100
        q0 == (num * scale) \div den
        rem == (num * scale) % den
        q == IF 2 * rem > den \/ (2 * rem = den /\ q0 % 2 = 1) THEN q0 + 1 ELSE q0
        frac == Digits(q % scale)
    IN  Digits(q \div scale) \o <<".">>
            \o (IF places = 2 /\ Len(frac) = 1 THEN <<"0">> ELSE <<>>) \o frac

\* the debug line of one candidate
DetailLine(rel_path, w, h, area, size, bucket, scope, pref_kw_count, overlap) ==
    S_path_eq \o rel_path
      \o <<" ","r","e","s","=">> \o Digits(w) \o <<"x">> \o Digits(h)
      \o <<" ","a","r","e","a","=">> \o Fixed(area, 1000000, 1) \o <<"M","P">>
      \o <<" ","s","i","z","e","=">> \o Fixed(size, 1000000, 1) \o <<"M","B">>
      \o <<" ","b","u","c","k","e","t","=">> \o Digits(bucket)
      \o <<" ","s","c","o","p","e","=">> \o scope
      \o <<" ","k","w","=">> \o Digits(pref_kw_count)
      \o <<" ","o","v","e","r","l","a","p","=">> \o Fixed(overlap[1], overlap[2], 2)

\* the file record of a path: what the probe prints and what stat reports
\* for it, None where the call fails; on a path that is gone both fail
StatOf(files, p) ==
    IF \E f \in files : f.path = p
    THEN CHOOSE f \in files : f.path = p
    ELSE [path |-> p, dims |-> None, size |-> None, real |-> p]

\* image_dims_area: (w, h, w * h), or (0, 0, 0) when the probe prints no
\* line or raises
image_dims_area(files, p) ==
    LET st == StatOf(files, p)
    IN  IF st.dims = None THEN <<0, 0, 0>>
        ELSE <<st.dims[1], st.dims[2], st.dims[1] * st.dims[2]>>

\* f.stat().st_size, or 0 on OSError
StatSize(files, p) ==
    LET st == StatOf(files, p)
    IN  IF st.size = None THEN 0 ELSE st.size[1]

\* the album token source of analyze_candidates
AlbumToken(album_root, dir_path) ==
    IF album_root # None /\ album_root = PathParent(dir_path)
    THEN PathName(dir_path)
    ELSE IF album_root # None THEN PathName(album_root) ELSE PathName(dir_path)

\* Faulty variant of BucketOf: the non-front disqualifier is not consulted
BucketOf_IgnoresNonFront(w, h, pref_kw_count, non_front, overlap) ==
    IF /\ is_squarish(w, h) \/ is_portraitish(w, h)
       /\ pref_kw_count > 0 \/ overlap[1] * 100 >= ALBUM_OVERLAP_PCT * overlap[2]
    THEN 1 ELSE 2

\* Faulty variant of BucketOf: portrait images do not pass the shape test
BucketOf_SquareOnly(w, h, pref_kw_count, non_front, overlap) ==
    IF /\ is_squarish(w, h)
       /\ ~non_front
       /\ pref_kw_count > 0 \/ overlap[1] * 100 >= ALBUM_OVERLAP_PCT * overlap[2]
    THEN 1 ELSE 2

\* bucket = 1 if shape_ok and not non_front and front_ok else 2
BucketOf(w, h, pref_kw_count, non_front, overlap) ==
    LET front_ok == pref_kw_count > 0
                    \/ overlap[1] * 100 >= ALBUM_OVERLAP_PCT * overlap[2]
        shape_ok == is_squarish(w, h) \/ is_portraitish(w, h)
    IN  IF shape_ok /\ ~non_front /\ front_ok THEN 1 ELSE 2

\* the loop body of analyze_candidates: the CoverCandidate of path f
AnalyzeOne(files, f, emb_path, album_root, dir_path, base_root, display_root) ==
    LET probe == image_dims_area(files, f)
        w == probe[1]
        h == probe[2]
        area == probe[3]
        album_tokens == clean_album_tokens(AlbumToken(album_root, dir_path))
        base_tokens == normalize_name_tokens(BaseNoExt(PathName(f)))
        kw == keyword_rank(base_tokens)
        non_front == has_blocking_non_front(base_tokens, album_tokens)
        overlap == album_overlap_ratio(base_tokens, album_tokens)
        sc == classify_scope(f, emb_path, dir_path, album_root,
                             IsMulti(album_root, dir_path))
        rel_path == IF sc[3] = S_embedded THEN S_EMBEDDED
                    ELSE IF StartsWith(PathStr(f), PathStr(base_root))
                    THEN RelStr(f, base_root)
                    ELSE display_path(f, display_root)
    IN  [path |-> f,
         width |-> w,
         height |-> h,
         area |-> area,
         size_bytes |-> StatSize(files, f),
         pref_kw_count |-> kw[1],
         name_token_score |-> token_overlap_score(base_tokens, album_tokens),
         has_non_front |-> non_front,
         bucket |-> BucketOf(w, h, kw[1], non_front, overlap),
         kw_rank |-> kw[2],
         scope_rank |-> sc[2],
         scope |-> sc[1],
         src_type |-> sc[3],
         name |-> PathName(f),
         album_tokens |-> album_tokens,
         rel_display |-> rel_path,
         overlap_ratio |-> overlap,
         is_embedded |-> sc[3] = S_embedded]

LineOf(c) ==
    DetailLine(c.rel_display, c.width, c.height, c.area, c.size_bytes,
               c.bucket, c.scope, c.pref_kw_count, c.overlap_ratio)

-----------------------------------------------------------------------------
(* select_cover_for_track on a directory tree *)

S_cover_tif == <<"c","o","v","e","r",".","t","i","f">>

S_cover_tiff == <<"c","o","v","e","r",".","t","i","f","f">>

S_back_cover_jpg == <<"b","a","c","k","-","c","o","v","e","r",".","j","p","g">>

S_cd1 == <<"c","d","1">>

S_cd2 == <<"c","d","2">>

S_cd2_jpg == <<"c","d","2",".","j","p","g">>

\* the library root, which is also the display root
LibraryRoot == << <<"m">> >>

\* the staging directory of the track, outside the library
StagingDir == << <<"t">>, <<"0">> >>

AlbumNames == { <<"T","e","a">>, <<"T","e","a","B","a","c","k">> }

\* Track layouts: no album root known, a single-folder album, and a track
\* inside the disc folder cd1 of the album.
TrackEnvs ==
    LET layouts(album) ==
            { [album_root |-> None, dir_path |-> album],
              [album_root |-> album, dir_path |-> album],
              [album_root |-> album, dir_path |-> album \o <<S_cd1>>] }
        \* what the frame extractor leaves and what the probe says of it
        extracts == { None,
                      <<[dims |-> <<200, 200>>, size |-> <<30000>>]>>,
                      <<[dims |-> <<200, 100>>, size |-> <<30000>>]>>,
                      <<[dims |-> <<200, 300>>, size |-> <<30000>>]>> }
    IN  UNION { { [album |-> LibraryRoot \o <<a>>,
                   album_root |-> l.album_root,
                   dir_path |-> l.dir_path,
                   extract |-> x] :
                  l \in layouts(LibraryRoot \o <<a>>), x \in extracts }
                : a \in AlbumNames }

\* the image files that may exist below the album of a layout; an album
\* with disc folders may hold a loose scan of the second disc at its root
PoolPaths(e) ==
    { e.dir_path \o <<S_cover_tif>>,
      e.dir_path \o <<S_back_cover_jpg>>,
      e.album \o <<S_cd2, S_cover_tif>> }
    \cup (IF e.dir_path = e.album
          THEN {e.dir_path \o <<S_cover_tiff>>}
          ELSE {e.album \o <<S_cd2_jpg>>})

\* probe result and size of a file: a square image, a wide image, a file
\* the probe cannot decode, and a file that neither the probe nor stat can
\* read
FileStats ==
    { [dims |-> <<300, 300>>, size |-> <<400000>>],
      [dims |-> <<600, 300>>, size |-> <<2500000>>],
      [dims |-> None, size |-> <<400000>>],
      [dims |-> None, size |-> None] }

\* directory trees of regular files; real is the file a path resolves to
PlainFs(e) ==
    UNION { { {[path |-> p, dims |-> st[p].dims, size |-> st[p].size,
                real |-> p] : p \in ps} : st \in [ps -> FileStats] }
            : ps \in {x \in SUBSET PoolPaths(e) : Cardinality(x) <= MaxFiles} }

\* the tree files in which the path l is a symbolic link to the file t
WithLink(files, l, t) ==
    {f \in files : f.path # l}
        \cup {[path |-> l, dims |-> StatOf(files, t).dims,
                size |-> StatOf(files, t).size, real |-> t]}

\* directory trees in which the cover of the track directory is a symbolic
\* link to another image of the album; os.walk lists it as a file
LinkedFs(e) ==
    LET l == e.dir_path \o <<S_cover_tif>>
    IN  UNION { {WithLink(files, l, t.path) : t \in {g \in files : g.path # l}}
                : files \in {h \in PlainFs(e) : \E g \in h : g.path = l} }

TrackInit ==
    /\ pc = "start"
    /\ env \in TrackEnvs
    /\ fs \in PlainFs(env) \cup LinkedFs(env)
    /\ candidates = <<>>
    /\ detail_lines = <<>>
    /\ best = None
    /\ cover_meta = <<>>
    /\ cover_detail = <<>>
    /\ prev_best = None
    /\ cand_paths = <<>>
    /\ embedded_path = None
    /\ PlanIdle
    /\ MainIdle

EmbeddedOut == StagingDir \o <<S_embedded_cover_png>>

\* Faulty variant of Gather: the output path of the frame extractor is
\* appended and returned whether or not the extraction succeeded
Gather_IgnoresExtractFailure ==
    /\ pc = "start"
    /\ LET is_multi == IsMulti(env.album_root, env.dir_path)
           local == find_images_recursive(fs, env.dir_path)
           extra == IF is_multi /\ env.album_root # None
                    THEN find_images_recursive(fs, env.album_root) \ local
                    ELSE {}
       IN  \E o1 \in Orderings(local) : \E o2 \in Orderings(extra) :
             /\ fs' = IF env.extract # None
                       THEN fs \cup {[path |-> EmbeddedOut,
                                      dims |-> env.extract[1].dims,
                                      size |-> env.extract[1].size,
                                      real |-> EmbeddedOut]}
                       ELSE fs
             /\ cand_paths' = o1 \o o2 \o <<EmbeddedOut>>
             /\ embedded_path' = EmbeddedOut
    /\ pc' = "gathered"
    /\ UNCHANGED nonCoverVars
    /\ UNCHANGED <<candidates, detail_lines, best, cover_meta, cover_detail,
                   prev_best, env>>

\* gather_image_candidates, with extract_embedded_cover
Gather ==
    /\ pc = "start"
    /\ LET is_multi == IsMulti(env.album_root, env.dir_path)
           local == find_images_recursive(fs, env.dir_path)
           extra == IF is_multi /\ env.album_root # None
                    THEN find_images_recursive(fs, env.album_root) \ local
                    ELSE {}
       IN  \E o1 \in Orderings(local) : \E o2 \in Orderings(extra) :
             IF env.extract # None
             THEN /\ fs' = fs \cup {[path |-> EmbeddedOut,
                                      dims |-> env.extract[1].dims,
                                      size |-> env.extract[1].size,
                                      real |-> EmbeddedOut]}
                  /\ cand_paths' = o1 \o o2 \o <<EmbeddedOut>>
                  /\ embedded_path' = EmbeddedOut
             ELSE /\ fs' = fs
                  /\ cand_paths' = o1 \o o2
                  /\ embedded_path' = None
    /\ pc' = "gathered"
    /\ UNCHANGED nonCoverVars
    /\ UNCHANGED <<candidates, detail_lines, best, cover_meta, cover_detail,
                   prev_best, env>>

BaseRoot == IF env.album_root # None THEN env.album_root ELSE env.dir_path

\* Faulty variant of Analyze: the first path whose probe fails ends the loop
Analyze_StopsAtFailure ==
    /\ pc = "gathered"
    /\ LET bad == {i \in 1..Len(cand_paths) : StatOf(fs, cand_paths[i]).dims = None}
           n == IF bad = {} THEN Len(cand_paths)
                ELSE (CHOOSE i \in bad : \A j \in bad : i <= j) - 1
       IN  /\ candidates' = [i \in 1..n |->
                                AnalyzeOne(fs, cand_paths[i], embedded_path,
                                           env.album_root, env.dir_path,
                                           IF env.album_root # None
                                           THEN env.album_root ELSE env.dir_path,
                                           LibraryRoot)]
           /\ detail_lines' = [i \in 1..n |-> LineOf(candidates'[i])]
    /\ pc' = "analyzed"
    /\ UNCHANGED nonCoverVars
    /\ UNCHANGED <<best, cover_meta, cover_detail, prev_best, fs, env,
                   cand_paths, embedded_path>>

\* analyze_candidates
Analyze ==
    /\ pc = "gathered"
    /\ candidates' = [i \in 1..Len(cand_paths) |->
                        AnalyzeOne(fs, cand_paths[i], embedded_path,
                                   env.album_root, env.dir_path, BaseRoot,
                                   LibraryRoot)]
    /\ detail_lines' = [i \in 1..Len(cand_paths) |-> LineOf(candidates'[i])]
    /\ pc' = "analyzed"
    /\ UNCHANGED nonCoverVars
    /\ UNCHANGED <<best, cover_meta, cover_detail, prev_best, fs, env,
                   cand_paths, embedded_path>>

\* Faulty variant of SelectCover: the extracted frame is left in place
\* whoever wins
SelectCover_KeepsExtraction ==
    /\ pc = "analyzed"
    /\ LET r == select_best_cover(candidates, detail_lines)
       IN  /\ best' = r.best
           /\ cover_meta' = r.cover_meta
           /\ cover_detail' = r.cover_detail
    /\ pc' = "done"
    /\ UNCHANGED nonCoverVars
    /\ UNCHANGED <<candidates, detail_lines, prev_best, fs, env, cand_paths,
                   embedded_path>>

\* select_best_cover and the removal of a non-winning extraction that end
\* select_cover_for_track
SelectCover ==
    /\ pc = "analyzed"
    /\ LET r == select_best_cover(candidates, detail_lines)
       IN  /\ best' = r.best
           /\ cover_meta' = r.cover_meta
           /\ cover_detail' = r.cover_detail
           /\ fs' = IF /\ embedded_path # None
                       /\ r.best # None
                       /\ embedded_path # r.best[1].path
                    THEN {f \in fs : f.path # embedded_path}
                    ELSE fs
    /\ pc' = "done"
    /\ UNCHANGED nonCoverVars
    /\ UNCHANGED <<candidates, detail_lines, prev_best, env, cand_paths,
                   embedded_path>>

TrackNext == Gather \/ Analyze \/ SelectCover

SpecTrack == TrackInit /\ [][TrackNext]_vars

\* Album folders for the comparison of file names with the album name: a
\* name that repeats a word, names of one and of two words, and a name that
\* leaves no usable token
OverlapAlbums ==
    { <<"T","e","a"," ","T","e","a">>,
      <<"T","e","a">>,
      <<"T","e","a"," ","L","e","a","f">>,
      <<"1","2">> }

OverlapNames ==
    { <<"t","e","a",".","j","p","g">>,
      <<"t","e","a","-","t","e","a",".","j","p","g">>,
      <<"t","e","a","-","l","e","a","f",".","j","p","g">>,
      <<"l","e","a","f",".","p","n","g">> }

\* single-folder albums, with and without a known album root
OverlapEnvs ==
    UNION { { [album |-> LibraryRoot \o <<a>>,
               album_root |-> r,
               dir_path |-> LibraryRoot \o <<a>>,
               extract |-> x] :
              r \in {None, LibraryRoot \o <<a>>},
              x \in {None, <<[dims |-> <<200, 200>>, size |-> <<30000>>]>>} }
            : a \in OverlapAlbums }

\* square images of the track directory
OverlapFs(e) ==
    { {[path |-> e.dir_path \o <<n>>, dims |-> <<300, 300>>,
        size |-> <<400000>>, real |-> e.dir_path \o <<n>>] : n \in ns}
      : ns \in {x \in SUBSET OverlapNames : Cardinality(x) <= MaxFiles} }

OverlapInit ==
    /\ pc = "start"
    /\ env \in OverlapEnvs
    /\ fs \in OverlapFs(env)
    /\ candidates = <<>>
    /\ detail_lines = <<>>
    /\ best = None
    /\ cover_meta = <<>>
    /\ cover_detail = <<>>
    /\ prev_best = None
    /\ cand_paths = <<>>
    /\ embedded_path = None
    /\ PlanIdle
    /\ MainIdle

SpecOverlap == OverlapInit /\ [][TrackNext]_vars

-----------------------------------------------------------------------------
(* Album spread helpers *)

Max(a, b) == IF a >= b THEN a ELSE b

Min(a, b) == IF a <= b THEN a ELSE b

\* Faulty variant of compute_recent_albums_size: the window is not reduced
\* for small libraries
compute_recent_albums_size_NoShrink(n) ==
    Max(RECENT_ALBUMS_MIN,
        Min(RECENT_ALBUMS_MAX, Max(1, (n * RECENT_ALBUMS_PCT) \div 100)))

compute_recent_albums_size(n) ==
    LET size == Max(RECENT_ALBUMS_MIN,
                    Min(RECENT_ALBUMS_MAX,
                        Max(1, (n * RECENT_ALBUMS_PCT) \div 100)))
    IN  IF size >= n THEN Max(0, n - 1) ELSE size

\* lst[-n:] for n > 0
LastN(lst, n) ==
    IF n >= Len(lst) THEN lst ELSE SubSeq(lst, Len(lst) - n + 1, Len(lst))

\* Faulty variant of Blocked: the window is taken from the old end
Blocked_OldestEntries(recent, recent_size) ==
    IF recent_size > 0
    THEN SeqToSet(SubSeq(recent, 1, Min(recent_size, Len(recent))))
    ELSE {}

\* blocked = set(recent_albums[-recent_size:]) if recent_size > 0 else set()
Blocked(recent, recent_size) ==
    IF recent_size > 0 THEN SeqToSet(LastN(recent, recent_size)) ELSE {}

\* Faulty variant of choose_album_for_play: no fallback to the full list
choose_album_for_play_NoFallback(albums_list, recent, recent_size) ==
    LET blocked == Blocked(recent, recent_size)
        cands == SelectSeq(albums_list, LAMBDA a : a \notin blocked)
    IN  IF cands = <<>> THEN {None}
        ELSE {<<cands[i]>> : i \in 1..Len(cands)}

\* choose_album_for_play: the values the call can return, None or <<album>>;
\* random.choice may return any element of its argument
choose_album_for_play(albums_list, recent, recent_size) ==
    IF albums_list = <<>> THEN {None}
    ELSE LET blocked == Blocked(recent, recent_size)
             free == SelectSeq(albums_list, LAMBDA a : a \notin blocked)
             cands == IF free = <<>> THEN albums_list ELSE free
         IN  {<<cands[i]>> : i \in 1..Len(cands)}

\* album directories of the library; "D" stands for one that left it
AlbumDirs == {"A", "B", "C"}

PlayedDirs == AlbumDirs \cup {"D"}

\* the sequences over S of length at most n
SeqsUpTo(S, n) == UNION {[1..k -> S] : k \in 0..n}

\* album lists name every directory once
AlbumLists ==
    {l \in SeqsUpTo(AlbumDirs, MaxAlbums) :
        \A i \in 1..Len(l) : \A j \in 1..Len(l) : i # j => l[i] # l[j]}

AlbumInit ==
    /\ pc = "choose"
    /\ albums \in AlbumLists
    /\ recent_albums \in SeqsUpTo(PlayedDirs, MaxRecent)
    /\ recent_albums_size \in 0..(MaxRecent + 1)
    /\ album_choice = None
    /\ total_albums = 0
    /\ album_by_index = <<>>
    /\ CoverIdle
    /\ MainIdle

\* one call of choose_album_for_play
ChooseAlbum ==
    /\ pc = "choose"
    /\ album_choice' \in choose_album_for_play(albums, recent_albums,
                                               recent_albums_size)
    /\ pc' = "chosen"
    /\ UNCHANGED <<albums, recent_albums, recent_albums_size, total_albums,
                   album_by_index>>
    /\ UNCHANGED nonPlanVars

AlbumNext == ChooseAlbum

SpecAlbum == AlbumInit /\ [][AlbumNext]_vars

SizeInit ==
    /\ pc = "size"
    /\ total_albums \in 0..MaxTotalAlbums
    /\ albums = <<>>
    /\ recent_albums = <<>>
    /\ recent_albums_size = 0
    /\ album_choice = None
    /\ album_by_index = <<>>
    /\ CoverIdle
    /\ MainIdle

\* one call of compute_recent_albums_size
ComputeSize ==
    /\ pc = "size"
    /\ recent_albums_size' = compute_recent_albums_size(total_albums)
    /\ pc' = "sized"
    /\ UNCHANGED <<albums, recent_albums, album_choice, total_albums,
                   album_by_index>>
    /\ UNCHANGED nonPlanVars

SizeNext == ComputeSize

SpecSize == SizeInit /\ [][SizeNext]_vars

-----------------------------------------------------------------------------
(* The playback loop of main in album, playlist and single-shuffle modes *)

S_replace == "replace"

S_append_play == "append-play"

\* the QueueState, the staging directories and the player as one record
QueueNow ==
    [next_to_prepare |-> next_to_prepare,
     highest_appended |-> highest_appended,
     current_pos |-> current_pos,
     staged |-> staged,
     loads |-> loads,
     playlist |-> mpv_playlist,
     pos |-> mpv_pos,
     appended |-> FALSE,
     crashed |-> FALSE]

\* Faulty variant of QueueTarget: nothing is staged ahead
QueueTarget_NoLookahead(q) == q.current_pos

\* target = state.current_pos + BUFFER_AHEAD
QueueTarget(q) == q.current_pos + BUFFER_AHEAD

\* the while condition of queue_more and the break of its else branch
QueueContinues(q) ==
    /\ q.highest_appended < QueueTarget(q)
    /\ q.next_to_prepare < total_tracks

\* append_to_mpv: the player takes the loadfile command when it is
\* running; replace starts the file, append-play starts it when the player
\* is idle
AppendToMpv(q, index, mode) ==
    LET sent == [q EXCEPT !.loads = Append(@, [index |-> index, mode |-> mode])]
    IN  IF ~mpv_alive THEN sent
        ELSE IF mode = S_replace
        THEN [sent EXCEPT !.playlist = <<[index |-> index, mode |-> mode]>>,
                          !.pos = <<0>>]
        ELSE [sent EXCEPT
                !.playlist = Append(@, [index |-> index, mode |-> mode]),
                !.pos = IF q.pos = None THEN <<Len(q.playlist)>> ELSE @]

\* Faulty variant of QueueBody: highest_appended is not updated
QueueBody_ForgetsHighest(q) ==
    LET index == q.next_to_prepare
        mode == IF q.highest_appended < 0 THEN S_replace ELSE S_append_play
        prepared == [q EXCEPT !.staged = @ \cup {index}]
    IN  [AppendToMpv(prepared, index, mode) EXCEPT
            !.next_to_prepare = index + 1,
            !.appended = TRUE]

\* one pass of the loop body of queue_more: prepare_track stages the track,
\* append_to_mpv hands it to the player
QueueBody(q) ==
    LET index == q.next_to_prepare
        mode == IF q.highest_appended < 0 THEN S_replace ELSE S_append_play
        prepared == [q EXCEPT !.staged = @ \cup {index}]
    IN  [AppendToMpv(prepared, index, mode) EXCEPT
            !.highest_appended = index,
            !.next_to_prepare = index + 1,
            !.appended = TRUE]

\* queue_more: the states it can end in.  prepare_track raises when the
\* source cannot be copied, with or without the staging directory made.
RECURSIVE queue_more(_)
queue_more(q) ==
    IF ~QueueContinues(q) THEN {q}
    ELSE { [q EXCEPT !.crashed = TRUE],
           [q EXCEPT !.crashed = TRUE, !.staged = @ \cup {q.next_to_prepare}] }
         \cup queue_more(QueueBody(q))

\* clean_finished: the directories it removes and the index it returns
CleanRemoves(upto, cleaned) ==
    IF upto - 1 > cleaned THEN (cleaned + 1)..(upto - 1) ELSE {}

clean_finished(upto, cleaned) ==
    IF upto - 1 > cleaned THEN upto - 1 ELSE cleaned

\* get_playlist_pos: None when the player has no current entry (older
\* players) or <<-1>> (newer ones), else the position
PosReports == IF mpv_pos = None THEN {None, <<0 - 1>>} ELSE {mpv_pos}

MainInit ==
    /\ pc = "main_start"
    /\ total_tracks \in 0..MaxTracks
    /\ next_to_prepare = 0
    /\ highest_appended = 0 - 1
    /\ current_pos = 0 - 1
    /\ last_cleaned = 0 - 1
    /\ staged = {}
    /\ tmp_root_exists = TRUE
    /\ ipc_path_exists = TRUE
    /\ mpv_alive = TRUE
    /\ loads = <<>>
    /\ mpv_playlist = <<>>
    /\ mpv_pos = None
    /\ CoverIdle
    /\ PlanIdle

\* the state after a call of queue_more that ended as r
AfterQueueMore(r) ==
    /\ next_to_prepare' = r.next_to_prepare
    /\ highest_appended' = r.highest_appended
    /\ staged' = r.staged
    /\ loads' = r.loads
    /\ mpv_playlist' = r.playlist
    /\ mpv_pos' = r.pos
    /\ pc' = IF r.crashed THEN "crashed" ELSE "loop"

\* Faulty variant of CleanupSession: the staging root is left behind
CleanupSession_KeepsStagingRoot ==
    /\ staged' = staged
    /\ tmp_root_exists' = tmp_root_exists
    /\ ipc_path_exists' = FALSE
    /\ pc' = "exited"

\* cleanup_session after the loop
CleanupSession ==
    /\ staged' = {}
    /\ tmp_root_exists' = FALSE
    /\ ipc_path_exists' = FALSE
    /\ pc' = "exited"

\* the first queue_more of main
InitialFill ==
    /\ pc = "main_start"
    /\ \E r \in queue_more(QueueNow) : AfterQueueMore(r)
    /\ UNCHANGED <<total_tracks, current_pos, last_cleaned, tmp_root_exists,
                   ipc_path_exists, mpv_alive>>
    /\ UNCHANGED nonMainVars

\* a loop iteration that finds the player process gone: the loop ends
PollPlayerGone ==
    /\ pc = "loop"
    /\ ~mpv_alive
    /\ CleanupSession
    /\ UNCHANGED <<total_tracks, next_to_prepare, highest_appended,
                   current_pos, last_cleaned, mpv_alive, loads, mpv_playlist,
                   mpv_pos>>
    /\ UNCHANGED nonMainVars

\* a loop iteration in which the player reports no position, all tracks
\* being prepared: the loop ends
PollNoPositionDone ==
    /\ pc = "loop"
    /\ mpv_alive
    /\ None \in PosReports
    /\ next_to_prepare >= total_tracks
    /\ CleanupSession
    /\ UNCHANGED <<total_tracks, next_to_prepare, highest_appended,
                   current_pos, last_cleaned, mpv_alive, loads, mpv_playlist,
                   mpv_pos>>
    /\ UNCHANGED nonMainVars

\* a loop iteration in which the player reports no position while tracks
\* remain
PollNoPositionMore ==
    /\ pc = "loop"
    /\ mpv_alive
    /\ None \in PosReports
    /\ next_to_prepare < total_tracks
    /\ \E r \in queue_more(QueueNow) : AfterQueueMore(r)
    /\ UNCHANGED <<total_tracks, current_pos, last_cleaned, tmp_root_exists,
                   ipc_path_exists, mpv_alive>>
    /\ UNCHANGED nonMainVars

\* a loop iteration in which the player reports a position other than
\* current_pos
PollNewPosition ==
    /\ pc = "loop"
    /\ mpv_alive
    /\ \E report \in PosReports \ {None} :
        LET pos == report[1]
            cleaned == [QueueNow EXCEPT
                          !.staged = @ \ CleanRemoves(pos, last_cleaned),
                          !.current_pos = pos]
        IN  /\ pos # current_pos
            /\ last_cleaned' = clean_finished(pos, last_cleaned)
            /\ current_pos' = pos
            /\ \E r \in queue_more(cleaned) : AfterQueueMore(r)
    /\ UNCHANGED <<total_tracks, tmp_root_exists, ipc_path_exists, mpv_alive>>
    /\ UNCHANGED nonMainVars

\* a loop iteration in which the player reports current_pos again
PollSamePosition ==
    /\ pc = "loop"
    /\ mpv_alive
    /\ <<current_pos>> \in PosReports
    /\ UNCHANGED vars

\* the player moves to another playlist entry (end of file, next, prev) or
\* stops playing
PlayerMoves ==
    /\ pc \in {"main_start", "loop"}
    /\ mpv_alive
    /\ mpv_pos' \in ({None} \cup {<<i>> : i \in 0..(Len(mpv_playlist) - 1)})
                        \ {mpv_pos}
    /\ UNCHANGED <<pc, total_tracks, next_to_prepare, highest_appended,
                   current_pos, last_cleaned, staged, tmp_root_exists,
                   ipc_path_exists, mpv_alive, loads, mpv_playlist>>
    /\ UNCHANGED nonMainVars

\* the player process exits
PlayerExits ==
    /\ pc \in {"main_start", "loop"}
    /\ mpv_alive
    /\ mpv_alive' = FALSE
    /\ mpv_pos' = None
    /\ UNCHANGED <<pc, total_tracks, next_to_prepare, highest_appended,
                   current_pos, last_cleaned, staged, tmp_root_exists,
                   ipc_path_exists, loads, mpv_playlist>>
    /\ UNCHANGED nonMainVars

MainNext ==
    \/ InitialFill
    \/ PollPlayerGone
    \/ PollNoPositionDone
    \/ PollNoPositionMore
    \/ PollNewPosition
    \/ PollSamePosition
    \/ PlayerMoves
    \/ PlayerExits

SpecMain == MainInit /\ [][MainNext]_vars

\* The loop polls for ever: time.sleep(POLL_INTERVAL) returns, so the first
\* queue_more and every loop iteration that ends the loop take place
SpecMainFair ==
    /\ SpecMain
    /\ WF_vars(InitialFill)
    /\ WF_vars(PollPlayerGone)
    /\ WF_vars(PollNoPositionDone)

-----------------------------------------------------------------------------
(* The playback loop of main in album-spread mode *)

\* build_album_map: the albums of the library directories S, in the order
\* in which iterdir lists them
DirList(S) == SelectSeq(<<"A", "B", "C">>, LAMBDA a : a \in S)

\* Faulty variant of DequeAppend: a full window keeps its entries
DequeAppend_KeepsOldest(d, x, maxlen) ==
    IF Len(d) >= maxlen THEN d ELSE Append(d, x)

\* deque(maxlen=maxlen).append(x): the oldest entry leaves a full deque
DequeAppend(d, x, maxlen) ==
    IF maxlen = 0 THEN <<>> ELSE LastN(Append(d, x), maxlen)

\* the QueueState, the planner and the player as one record
SpreadNow ==
    [main |-> QueueNow,
     albums |-> albums,
     recent_albums |-> recent_albums,
     album_by_index |-> album_by_index]

\* maybe_refresh_album_map: nothing before RANDOM_RESCAN_INTERVAL has
\* passed since the last scan, else the albums then in the library, and the
\* recent albums that are still among them; due tells whether the interval
\* can have passed
Rescans(q, due) ==
    {q} \cup
    IF due
    THEN { [q EXCEPT !.albums = DirList(S),
                     !.recent_albums = SelectSeq(@, LAMBDA h : h \in S)]
           : S \in SUBSET AlbumDirs }
    ELSE {}

\* queue_more in album-spread mode: the states it can end in.  Every track
\* is chosen when it is prepared, tracks being empty at the start.
RECURSIVE spread_queue_more(_, _)
spread_queue_more(q, due) ==
    IF ~(q.main.highest_appended < QueueTarget(q.main)) THEN {q}
    ELSE UNION {
           UNION {
             IF c = None THEN {r}
             ELSE LET chosen == [r EXCEPT !.album_by_index = Append(@, c[1])]
                  IN  { [chosen EXCEPT !.main.crashed = TRUE],
                        [chosen EXCEPT !.main.crashed = TRUE,
                                       !.main.staged =
                                           @ \cup {q.main.next_to_prepare}] }
                      \cup spread_queue_more(
                              [chosen EXCEPT !.main = QueueBody(@)], due)
             : c \in choose_album_for_play(r.albums, r.recent_albums,
                                           recent_albums_size) }
           : r \in Rescans(q, due) }

\* load_tracks_and_planner and the QueueState of main for a library in
\* album-spread mode: more albums than the window holds, and a window that
\* the cache of an earlier run may have filled
SpreadInit ==
    /\ pc = "main_start"
    /\ albums \in {DirList(S) : S \in {T \in SUBSET AlbumDirs :
                                            Cardinality(T) >= 2}}
    /\ recent_albums_size \in 1..(Len(albums) - 1)
    /\ recent_albums \in {<<>>} \cup {<<albums[i]>> : i \in 1..Len(albums)}
    /\ album_choice = None
    /\ total_albums = 0
    /\ album_by_index = <<>>
    /\ total_tracks = Len(albums)
    /\ next_to_prepare = 0
    /\ highest_appended = 0 - 1
    /\ current_pos = 0 - 1
    /\ last_cleaned = 0 - 1
    /\ staged = {}
    /\ tmp_root_exists = TRUE
    /\ ipc_path_exists = TRUE
    /\ mpv_alive = TRUE
    /\ loads = <<>>
    /\ mpv_playlist = <<>>
    /\ mpv_pos = None
    /\ CoverIdle

\* the state after a call of queue_more that ended as r; the loop goes on
\* when the call appended a track or when goes_on says so
AfterSpreadQueue(r, goes_on) ==
    /\ next_to_prepare' = r.main.next_to_prepare
    /\ highest_appended' = r.main.highest_appended
    /\ loads' = r.main.loads
    /\ mpv_playlist' = r.main.playlist
    /\ mpv_pos' = r.main.pos
    /\ albums' = r.albums
    /\ recent_albums' = r.recent_albums
    /\ album_by_index' = r.album_by_index
    /\ IF r.main.crashed
       THEN /\ pc' = "crashed"
            /\ staged' = r.main.staged
            /\ UNCHANGED <<tmp_root_exists, ipc_path_exists>>
       ELSE IF r.main.appended \/ goes_on
       THEN /\ pc' = "loop"
            /\ staged' = r.main.staged
            /\ UNCHANGED <<tmp_root_exists, ipc_path_exists>>
       ELSE CleanupSession

\* the first queue_more of main, right after the scan of from_library
SpreadInitialFill ==
    /\ pc = "main_start"
    /\ \E r \in spread_queue_more(SpreadNow, FALSE) : AfterSpreadQueue(r, TRUE)
    /\ UNCHANGED <<total_tracks, current_pos, last_cleaned, mpv_alive,
                   recent_albums_size, album_choice, total_albums>>
    /\ UNCHANGED coverVars

\* a loop iteration in which the player reports no position: the loop ends
\* unless queue_more appends a track
SpreadPollNoPosition ==
    /\ pc = "loop"
    /\ mpv_alive
    /\ next_to_prepare < MaxTracks
    /\ None \in PosReports
    /\ \E r \in spread_queue_more(SpreadNow, TRUE) :
           AfterSpreadQueue(r, FALSE)
    /\ UNCHANGED <<total_tracks, current_pos, last_cleaned, mpv_alive,
                   recent_albums_size, album_choice, total_albums>>
    /\ UNCHANGED coverVars

\* a loop iteration in which the player reports a position other than
\* current_pos: the album of the entry joins the recent albums, and the loop
\* ends unless queue_more appends a track
SpreadPollNewPosition ==
    /\ pc = "loop"
    /\ mpv_alive
    /\ next_to_prepare < MaxTracks
    /\ \E report \in PosReports \ {None} :
        LET pos == report[1]
            started == [SpreadNow EXCEPT
                          !.recent_albums =
                              IF pos >= 0 /\ pos < Len(album_by_index)
                              THEN DequeAppend(@, album_by_index[pos + 1],
                                               recent_albums_size)
                              ELSE @,
                          !.main.staged = @ \ CleanRemoves(pos, last_cleaned),
                          !.main.current_pos = pos]
        IN  /\ pos # current_pos
            /\ last_cleaned' = clean_finished(pos, last_cleaned)
            /\ current_pos' = pos
            /\ \E r \in spread_queue_more(started, TRUE) :
                   AfterSpreadQueue(r, FALSE)
    /\ UNCHANGED <<total_tracks, mpv_alive, recent_albums_size, album_choice,
                   total_albums>>
    /\ UNCHANGED coverVars

SpreadNext ==
    \/ SpreadInitialFill
    \/ PollPlayerGone
    \/ SpreadPollNoPosition
    \/ SpreadPollNewPosition
    \/ PollSamePosition
    \/ PlayerMoves
    \/ PlayerExits

SpecSpread == SpreadInit /\ [][SpreadNext]_vars

-----------------------------------------------------------------------------
(* Claims about select_best_cover *)

\* a call of select_best_cover has returned
Returned == pc \in {"selected", "reselected", "done"}

CandSet == SeqToSet(candidates)

Front == {c \in CandSet : c.bucket = 1}

Other == {c \in CandSet : c.bucket # 1}

IsTiny(c) == c.area < TINY_FRONT_AREA

\* the tiny-floor fallback applies to the current candidates
FallbackCase ==
    /\ Front # {}
    /\ \A c \in Front : IsTiny(c)
    /\ \E c \in Other : ~IsTiny(c)

\* C1: when bucket 1 is non-empty, all of it is below the tiny-front floor
\* and some non-bucket-1 candidate reaches the floor, the winner is a
\* non-bucket-1 candidate whose area reaches the floor.
C1_FallbackRule ==
    (Returned /\ FallbackCase) =>
        /\ best # None
        /\ best[1] \in Other
        /\ best[1].area >= TINY_FRONT_AREA

C1_Witness ==
    /\ Returned /\ FallbackCase
    /\ best # None /\ best[1].bucket = 2 /\ ~IsTiny(best[1])

\* C2: when bucket 1 is non-empty and either one of its candidates reaches
\* the floor or no candidate outside bucket 1 does, the winner is a bucket-1
\* candidate, whatever the areas of the others; buckets other than 1
\* (legacy bucket 3 too) count as bucket 2.
C2_Bucket1BeatsBucket2 ==
    (/\ Returned
     /\ Front # {}
     /\ \/ \E c \in Front : ~IsTiny(c)
        \/ \A c \in Other : IsTiny(c)) =>
        /\ best # None
        /\ best[1] \in Front

C2_Witness ==
    /\ Returned
    /\ best # None /\ best[1].bucket = 1 /\ ~IsTiny(best[1])
    /\ \E c \in CandSet : c.bucket = 3 /\ c.area > best[1].area

\* C3: a winner taken from bucket 1 has the largest area of bucket 1, even
\* when a smaller bucket-1 candidate is the embedded one with the better
\* scope rank and keyword rank.
C3_Bucket1LargestArea ==
    (Returned /\ best # None /\ best[1].bucket = 1) =>
        \A c \in Front : c.area <= best[1].area

C3_Witness ==
    /\ Returned
    /\ best # None /\ best[1].bucket = 1 /\ ~best[1].is_embedded
    /\ \E c \in Front :
        /\ c.is_embedded
        /\ c.area < best[1].area
        /\ c.scope_rank < best[1].scope_rank
        /\ c.kw_rank < best[1].kw_rank

\* C4: the winner is the same for every ordering of the same candidates,
\* also when two candidates with different paths agree on every sort key.
C4_OrderIndependent ==
    pc = "reselected" => best = prev_best

IsSq(c) == is_squarish(c.width, c.height)

\* exactly two candidates, both squarish and outside bucket 1, with areas
\* inside the 75% band and different name token scores
TwoCloseSquarish ==
    /\ Len(candidates) = 2
    /\ \A c \in CandSet : c.bucket # 1 /\ IsSq(c)
    /\ \A c \in CandSet : \A d \in CandSet :
            c.area * 100 >= d.area * AREA_THRESHOLD_PCT
    /\ candidates[1].name_token_score # candidates[2].name_token_score

HigherScore ==
    IF candidates[1].name_token_score > candidates[2].name_token_score
    THEN candidates[1] ELSE candidates[2]

LowerScore ==
    IF candidates[1].name_token_score > candidates[2].name_token_score
    THEN candidates[2] ELSE candidates[1]

\* C5 as stated: of two squarish bucket-2 candidates with areas inside the
\* 75% band, the one with the higher name_token_score is selected, even when
\* it is the smaller one.
C5_Original ==
    (Returned /\ TwoCloseSquarish) => best = <<HigherScore>>

\* C5 amended: of two squarish bucket-2 candidates with the same scope_rank
\* and areas inside the 75% band, the one with the higher name_token_score
\* is selected, even when it is the smaller one.
C5_CloseSuppressesArea ==
    (/\ Returned /\ TwoCloseSquarish
     /\ candidates[1].scope_rank = candidates[2].scope_rank) =>
        best = <<HigherScore>>

C5_Witness ==
    /\ Returned /\ TwoCloseSquarish
    /\ candidates[1].scope_rank = candidates[2].scope_rank
    /\ HigherScore.area < LowerScore.area
    /\ best = <<HigherScore>>

\* the list that select_best_cover hands to choose_bucket2, when it does
Bucket2Pool ==
    IF Front = {} THEN Other
    ELSE IF FallbackCase THEN {c \in Other : ~IsTiny(c)}
    ELSE {}

\* C6: whenever bucket-2 selection runs on a pool that holds a squarish
\* candidate, the winner is squarish, whatever the area, scope rank and name
\* score of the non-squarish candidates.
C6_SquarishWinsBucket2 ==
    (Returned /\ \E c \in Bucket2Pool : IsSq(c)) =>
        best # None /\ IsSq(best[1])

C6_Witness ==
    /\ Returned
    /\ best # None /\ IsSq(best[1]) /\ best[1] \in Bucket2Pool
    /\ \E c \in Bucket2Pool :
        /\ ~IsSq(c)
        /\ c.area >= 2 * best[1].area
        /\ c.scope_rank < best[1].scope_rank
        /\ c.name_token_score > best[1].name_token_score

\* C7: an embedded candidate below the tiny-front floor is never returned
\* when the list holds a non-embedded candidate that reaches the floor.
C7_NoTinyEmbeddedOverScan ==
    (Returned /\ best # None /\ best[1].is_embedded /\ IsTiny(best[1])) =>
        ~\E c \in CandSet : ~c.is_embedded /\ ~IsTiny(c)

\* C10: for an empty candidate list the call returns no winner, an empty
\* metaString and the one-line report "[ ] no images found".
C10_NoCandidates ==
    (Returned /\ candidates = <<>>) =>
        /\ best = None
        /\ cover_meta = <<>>
        /\ cover_detail = <<S_no_images>>

C10_Witness == Returned /\ candidates = <<>> /\ best = None

-----------------------------------------------------------------------------
(* Claims about analyze_candidates and the report *)

\* analyze_candidates has returned
Analyzed == pc \in {"analyzed", "done"}

NameTokens(c) == SeqToSet(normalize_name_tokens(BaseNoExt(c.name)))

\* the file name holds a disqualifying word that is no album token
HasDisqualifier(c) ==
    \E t \in NameTokens(c) :
        t \in NON_FRONT_IMAGE_KEYWORDS /\ t \notin SeqToSet(c.album_tokens)

\* C8: analyze_candidates never puts a candidate in bucket 1 whose file name
\* tokens include a disqualifying word that is not an album token, even when
\* the name also holds a preferred keyword and the image is square.
C8_NonFrontNeverBucket1 ==
    Analyzed => \A c \in CandSet : HasDisqualifier(c) => c.bucket # 1

C8_Witness ==
    /\ Analyzed
    /\ \E c \in CandSet :
        /\ HasDisqualifier(c)
        /\ <<"c","o","v","e","r">> \in NameTokens(c)
        /\ c.width = c.height /\ c.width > 0
        /\ c.bucket = 2

\* C9: when select_best_cover returns a winner for analyzed candidates, the
\* report holds every debug line once, in order; the winner's line carries
\* the prefix "[*] " and every other candidate's line the prefix "[ ] ".
C9_ReportMarksOnlyWinner ==
    (pc = "done" /\ best # None) =>
        /\ Len(cover_detail) = Len(detail_lines)
        /\ \A i \in 1..Len(detail_lines) :
            cover_detail[i] =
                (IF candidates[i] = best[1] THEN S_selected ELSE S_neutral)
                    \o detail_lines[i]

\* C11: analyze_candidates returns one candidate and one debug line per
\* path, in input order; a path whose probe fails gets width, height and
\* area 0, one whose stat fails gets size 0, and the paths after it are
\* analyzed all the same.
C11_ProbeFailureNonFatal ==
    pc = "analyzed" =>
        /\ Len(candidates) = Len(cand_paths)
        /\ Len(detail_lines) = Len(cand_paths)
        /\ \A i \in 1..Len(cand_paths) :
            /\ candidates[i].path = cand_paths[i]
            /\ StartsWith(detail_lines[i], S_path_eq \o candidates[i].rel_display)
            /\ StatOf(fs, cand_paths[i]).dims = None =>
                    /\ candidates[i].width = 0
                    /\ candidates[i].height = 0
                    /\ candidates[i].area = 0
            /\ StatOf(fs, cand_paths[i]).size = None =>
                    candidates[i].size_bytes = 0

C11_Witness ==
    /\ pc = "analyzed"
    /\ Len(cand_paths) >= 2
    /\ StatOf(fs, cand_paths[1]).dims = None
    /\ StatOf(fs, cand_paths[1]).size = None
    /\ Len(candidates) = Len(cand_paths)
    /\ candidates[1].area = 0 /\ candidates[1].size_bytes = 0
    /\ candidates[2].area > 0

\* squarish within 13% of 1:1, or taller than wide
ShapeOk(c) ==
    \/ /\ c.width > 0 /\ c.height > 0
       /\ 87 * c.height <= 100 * c.width
       /\ 100 * c.width <= 113 * c.height
    \/ c.height > c.width

\* a preferred keyword in the name, or overlap_ratio * 100 >= 50
FrontOk(c) ==
    \/ c.pref_kw_count > 0
    \/ c.overlap_ratio[1] * 100 >= 50 * c.overlap_ratio[2]

\* C16: every analyzed candidate has bucket 1 or 2, and bucket 1 exactly
\* when the shape is squarish or portrait, has_non_front is false and a
\* keyword or enough album overlap is present; a candidate whose probe
\* failed (0x0) has bucket 2.
C16_TwoBuckets ==
    Analyzed => \A c \in CandSet :
        /\ c.bucket \in {1, 2}
        /\ c.bucket = 1 <=> (ShapeOk(c) /\ ~c.has_non_front /\ FrontOk(c))
        /\ (c.width = 0 /\ c.height = 0) => c.bucket = 2

C16_Witness ==
    /\ Analyzed
    /\ \E c \in CandSet :
        /\ c.height > c.width /\ ~IsSq(c)
        /\ c.bucket = 1
    /\ \E c \in CandSet :
        /\ c.width = 0 /\ c.height = 0
        /\ c.pref_kw_count > 0 /\ ~c.has_non_front
        /\ c.bucket = 2

\* the run is a multi-disc run
MultiDiscRun == IsMulti(env.album_root, env.dir_path)

\* C17: in a multi-disc run an image directly under the album root is
\* classified album-root with rank 2, whatever its file name; an image under
\* the track's own disc folder gets rank 1, and one under another folder
\* named like disc/cd/disk plus digits gets rank 3.
C17_MultiDiscScopes ==
    (Analyzed /\ MultiDiscRun) =>
        \A c \in CandSet :
            /\ PathParent(c.path) = env.album_root =>
                    (c.scope = S_album_root /\ c.scope_rank = 2)
            /\ IsUnder(c.path, env.dir_path) => c.scope_rank = 1
            /\ IsUnder(c.path, env.album_root \o <<S_cd2>>) => c.scope_rank = 3

\* the scope name that goes with a scope rank
ScopeOfRank(r) ==
    CASE r = 0 -> S_embedded
      [] r = 1 -> S_track_folder
      [] r = 2 -> S_album_root
      [] r = 3 -> S_other_disc

\* C18: every analyzed candidate has scope_rank in {0,1,2,3} and the scope
\* name that goes with it; scope_rank = 0, src_type = 'embedded',
\* is_embedded, path = the extracted frame's path and rel_display =
\* 'EMBEDDED' all hold together or not at all; rank 3 occurs only in
\* multi-disc runs.
C18_ScopeConsistent ==
    Analyzed =>
        \A c \in CandSet :
            /\ c.scope_rank \in 0..3
            /\ c.scope = ScopeOfRank(c.scope_rank)
            /\ (c.scope_rank = 0) <=> (c.src_type = S_embedded)
            /\ (c.scope_rank = 0) <=> c.is_embedded
            /\ (c.scope_rank = 0) <=>
                    (embedded_path # None /\ c.path = embedded_path)
            /\ (c.scope_rank = 0) <=> (c.rel_display = S_EMBEDDED)
            /\ c.src_type \in {S_embedded, S_external}
            /\ c.scope_rank = 3 => MultiDiscRun

C18_Witness ==
    /\ Analyzed
    /\ MultiDiscRun
    /\ \E c \in CandSet : c.scope_rank = 0 /\ c.rel_display = S_EMBEDDED
    /\ \E c \in CandSet : c.scope_rank = 3 /\ c.scope = S_other_disc

\* the positions of the candidates whose src_type is 'embedded'
EmbeddedCands ==
    {i \in 1..Len(candidates) : candidates[i].src_type = S_embedded}

\* C19: after gather_image_candidates and analyze_candidates at most one
\* candidate has src_type 'embedded', and exactly one has it if and only if
\* the extraction of the embedded frame succeeded.
C19_OneEmbeddedCandidate ==
    Analyzed =>
        /\ Cardinality(EmbeddedCands) <= 1
        /\ (Cardinality(EmbeddedCands) = 1) <=> (env.extract # None)

C19_Witness ==
    /\ Analyzed
    /\ env.extract # None
    /\ Len(candidates) = 3
    /\ EmbeddedCands = {3}

\* the list of gather_image_candidates has been returned
Gathered == pc \in {"gathered", "analyzed", "done"}

\* position i of the list holds a file found by a directory walk
ScannedAt(i) == cand_paths[i] # embedded_path

\* no image file is listed twice, whatever the paths it was found under
NoFileTwice ==
    \A i \in 1..Len(cand_paths) : \A j \in 1..Len(cand_paths) :
        StatOf(fs, cand_paths[i]).real = StatOf(fs, cand_paths[j]).real
            => i = j

\* the images of the track directory come first, those found only under the
\* album root follow and are listed only in a multi-disc run with a known
\* album root, and the extracted frame, if any, is last
CollectorOrder ==
    /\ \A i \in 1..Len(cand_paths) : \A j \in 1..Len(cand_paths) :
          (/\ ScannedAt(i) /\ ScannedAt(j)
           /\ IsUnder(cand_paths[i], env.dir_path)
           /\ ~IsUnder(cand_paths[j], env.dir_path)) => i < j
    /\ \A j \in 1..Len(cand_paths) :
          (ScannedAt(j) /\ ~IsUnder(cand_paths[j], env.dir_path)) =>
              /\ MultiDiscRun
              /\ env.album_root # None
              /\ IsUnder(cand_paths[j], env.album_root)
    /\ \A p \in find_images_recursive(fs, env.dir_path) :
          p \in SeqToSet(cand_paths)
    /\ (MultiDiscRun /\ env.album_root # None) =>
          \A p \in find_images_recursive(fs, env.album_root) :
              p \in SeqToSet(cand_paths)
    /\ (env.extract # None) <=> (embedded_path # None)
    /\ embedded_path # None =>
          /\ cand_paths # <<>>
          /\ cand_paths[Len(cand_paths)] = embedded_path
          /\ \A i \in 1..(Len(cand_paths) - 1) : ScannedAt(i)

\* C20: the list of gather_image_candidates names no image file twice, has
\* every image of the track directory before the images found only under the
\* album root, has album-root images only when the run is multi-disc and the
\* album root is known, and ends with the extracted frame if there is one.
C20_CollectorOrderAndDedup ==
    Gathered => (NoFileTwice /\ CollectorOrder)

\* the output file of the frame extractor exists
ExtractionFilePresent == \E f \in fs : f.path = EmbeddedOut

\* C21: after select_cover_for_track returns, the extracted frame is still
\* in the extraction directory exactly when it is the selected winner, so a
\* non-winning extraction has been deleted; a failed extraction leaves no
\* output file and no embedded entry in the candidate list.
C21_ExtractionLifecycle ==
    /\ pc = "done" =>
          (ExtractionFilePresent <=>
              (best # None /\ best[1].path = EmbeddedOut))
    /\ (Gathered /\ env.extract = None) =>
          /\ ~ExtractionFilePresent
          /\ embedded_path = None
          /\ \A i \in 1..Len(cand_paths) : cand_paths[i] # EmbeddedOut

C21_Witness ==
    /\ pc = "done"
    /\ env.extract # None
    /\ embedded_path = EmbeddedOut
    /\ best # None
    /\ best[1].path # EmbeddedOut
    /\ ~ExtractionFilePresent

\* a precedes b in the order of the last number in their names: a numbered
\* name before a name without digits, and the smaller number first
NumberBefore(a, b) ==
    /\ extract_trailing_int(a) # None
    /\ \/ extract_trailing_int(b) = None
       \/ extract_trailing_int(a)[1] < extract_trailing_int(b)[1]

\* the bucket-1 candidates that tie with the winner on area
TieArea == {c \in Front : c.area = best[1].area}

TieScope == {c \in TieArea : c.scope_rank = best[1].scope_rank}

TieKw == {c \in TieScope : c.kw_rank = best[1].kw_rank}

TieNumber ==
    {c \in TieKw : extract_trailing_int(c.name) = extract_trailing_int(best[1].name)}

\* C22: among the bucket-1 candidates of equal (maximal) area the winner has
\* the lowest scope_rank; among those the lowest kw_rank; among those the
\* smallest last number in the file name, a name without digits ranking
\* after every numbered name; among those the lexicographically smallest
\* name.
C22_Bucket1TieBreak ==
    (Returned /\ best # None /\ best[1].bucket = 1) =>
        /\ \A c \in Front : c.area <= best[1].area
        /\ \A c \in TieArea : best[1].scope_rank <= c.scope_rank
        /\ \A c \in TieScope : best[1].kw_rank <= c.kw_rank
        /\ \A c \in TieKw : ~NumberBefore(c.name, best[1].name)
        /\ \A c \in TieNumber : ~StrLess(c.name, best[1].name)

C22_Witness ==
    /\ Returned
    /\ Len(candidates) = 2
    /\ best # None /\ best[1].bucket = 1
    /\ extract_trailing_int(best[1].name) = <<2>>
    /\ \E c \in TieKw : extract_trailing_int(c.name) = None

\* the distinct tokens of the album name of a candidate
AlbumTokenSet(c) == SeqToSet(c.album_tokens)

\* the tokens of the file name of a candidate
FileTokens(c) == normalize_name_tokens(BaseNoExt(c.name))

\* C23: overlap_ratio of every analyzed candidate equals min(1,
\* name_token_score / size of the album token set), is 0 when the album has
\* no usable tokens, and lies in [0, 1]; name_token_score is the number of
\* file name tokens that occur in the album token set.
C23_OverlapRatio ==
    Analyzed =>
        \A c \in CandSet :
            LET n == Cardinality(AlbumTokenSet(c))
                num == c.overlap_ratio[1]
                den == c.overlap_ratio[2]
            IN  /\ den > 0 /\ 0 <= num /\ num <= den
                /\ c.name_token_score =
                      Cardinality({i \in 1..Len(FileTokens(c)) :
                                      FileTokens(c)[i] \in AlbumTokenSet(c)})
                /\ n = 0 => num = 0
                /\ n > 0 =>
                      IF c.name_token_score >= n THEN num = den
                      ELSE num * n = c.name_token_score * den

\* C24: for every non-empty candidate list select_best_cover returns a
\* winner that is one of the candidates, never None, and a non-empty meta
\* string, whether the winner comes from bucket 1, from the non-tiny
\* bucket-2 fallback or from a list without bucket 1.
C24_SelectionTotal ==
    (Returned /\ candidates # <<>>) =>
        /\ best # None
        /\ best[1] \in CandSet
        /\ cover_meta # <<>>

C24_Witness ==
    /\ Returned
    /\ Len(candidates) = 2
    /\ Front = {}
    /\ \A c \in CandSet : ~is_squarish(c.width, c.height)
    /\ best # None
    /\ best[1] = candidates[2]

-----------------------------------------------------------------------------
(* Claims about the album spread helpers *)

\* the albums among the last recent_size entries of recent_albums
InWindow ==
    {recent_albums[i] : i \in {j \in 1..Len(recent_albums) :
                                  j > Len(recent_albums) - recent_albums_size}}

\* C12: when recent_size > 0 and some album of albums_list is not among the
\* last recent_size entries of recent_albums, the returned album is a member
\* of albums_list that is not among those entries.
C12_AvoidsRecentAlbums ==
    (/\ pc = "chosen"
     /\ recent_albums_size > 0
     /\ \E a \in SeqToSet(albums) : a \notin InWindow) =>
        /\ album_choice # None
        /\ album_choice[1] \in SeqToSet(albums)
        /\ album_choice[1] \notin InWindow

C12_Witness ==
    /\ pc = "chosen"
    /\ recent_albums_size = 2
    /\ Len(recent_albums) = 3
    /\ Len(albums) = 3
    /\ recent_albums[1] \in SeqToSet(albums) \ InWindow
    /\ album_choice = <<recent_albums[1]>>

\* C13: when every album of a non-empty albums_list is inside the recent
\* window the call still returns a member of albums_list, and it returns
\* None exactly when albums_list is empty.
C13_DegradesToFullList ==
    pc = "chosen" =>
        /\ (albums # <<>> /\ SeqToSet(albums) \subseteq InWindow) =>
                (album_choice # None /\ album_choice[1] \in SeqToSet(albums))
        /\ album_choice = None <=> albums = <<>>

C13_Witness ==
    /\ pc = "chosen"
    /\ Len(albums) = 3
    /\ SeqToSet(albums) \subseteq InWindow
    /\ album_choice = <<albums[3]>>

\* 10% of n by integer division, at least 1, clamped to [20, 200], then
\* reduced to max(0, n - 1) when that value is >= n
WindowOf(n) ==
    LET tenth == (n * 10) \div 100
        atleast1 == IF tenth < 1 THEN 1 ELSE tenth
        clamped == IF atleast1 < 20 THEN 20
                   ELSE IF atleast1 > 200 THEN 200 ELSE atleast1
    IN  IF clamped >= n THEN (IF n - 1 < 0 THEN 0 ELSE n - 1) ELSE clamped

\* C14: compute_recent_albums_size(n) is 10% of n (integer division, at
\* least 1) clamped to [20, 200] and reduced to max(0, n - 1) when that is
\* >= n; for n >= 1 it is below n, and it never exceeds 200.
C14_WindowSize ==
    pc = "sized" =>
        /\ recent_albums_size = WindowOf(total_albums)
        /\ total_albums >= 1 => recent_albums_size < total_albums
        /\ recent_albums_size >= 0
        /\ recent_albums_size <= 200

C14_Witness ==
    /\ pc = "sized"
    /\ total_albums = 20
    /\ recent_albums_size = 19

-----------------------------------------------------------------------------
(* Claims about the playback loop *)

\* C15: after the initial fill and after every handled position report,
\* highest_appended >= min(current_pos + BUFFER_AHEAD, total_tracks - 1):
\* the track after the current one has been appended whenever there is one.
C15_QueueKeptFilled ==
    pc = "loop" =>
        highest_appended >= Min(current_pos + BUFFER_AHEAD, total_tracks - 1)

C15_Witness ==
    /\ pc = "loop"
    /\ current_pos = 1
    /\ highest_appended = 2
    /\ mpv_alive
    /\ mpv_pos = <<1>>
    /\ \E i \in 1..Len(mpv_playlist) : mpv_playlist[i].index = 2

\* C25: whatever positions the player reports, moves back to an earlier
\* entry included, the staging directory of the track at the current
\* position and of every appended later track has not been removed by
\* clean_finished.
C25_PlayingTrackStaysStaged ==
    (pc = "loop" /\ current_pos >= 0) =>
        \A i \in current_pos..highest_appended : i \in staged

\* the player is running and a poll of it can come back without a position
\* while tracks remain to be prepared
IdleWithTracksLeft ==
    /\ pc = "loop"
    /\ mpv_alive
    /\ None \in PosReports
    /\ next_to_prepare < total_tracks

\* C27: outside album-spread mode, a poll iteration that gets no playlist
\* position while unprepared tracks remain stages and appends at least one
\* further track, so that the loop cannot poll for ever without queuing a
\* track or exiting.
C27_IdleProgress ==
    IdleWithTracksLeft =>
        \A r \in queue_more(QueueNow) : r.appended \/ r.crashed

\* C29: track indices are prepared and sent to the player once each in
\* increasing order, next_to_prepare = highest_appended + 1 at all times,
\* the first loadfile command has mode 'replace' and every later one
\* 'append-play', so that no 'replace' follows an appended track.
C29_LoadProtocol ==
    /\ next_to_prepare = highest_appended + 1
    /\ Len(loads) = next_to_prepare
    /\ \A i \in 1..Len(loads) :
          /\ loads[i].index = i - 1
          /\ loads[i].mode = IF i = 1 THEN S_replace ELSE S_append_play

C29_Witness ==
    /\ pc = "loop"
    /\ Len(loads) = 3
    /\ loads[3] = [index |-> 2, mode |-> S_append_play]
    /\ Len(mpv_playlist) = 3

\* the loop has ended and cleanup_session has removed the staging root and
\* the IPC socket
CleanedUp ==
    /\ pc = "exited"
    /\ ~tmp_root_exists
    /\ ~ipc_path_exists
    /\ staged = {}

\* C30: under fair polling the loop ends and cleanup_session removes the
\* staging root and the IPC socket once the player process has exited, and
\* outside album-spread mode also once the player has no playlist position
\* to report after every track has been prepared, unless it takes up a
\* position again before the poll.
C30_LoopTerminates ==
    /\ (pc = "loop" /\ ~mpv_alive) ~> CleanedUp
    /\ (pc = "loop" /\ mpv_alive /\ mpv_pos = None
           /\ next_to_prepare >= total_tracks)
          ~> (CleanedUp \/ mpv_pos # None)

C30_Witness ==
    /\ CleanedUp
    /\ mpv_alive
    /\ mpv_pos = None
    /\ Len(loads) = 2
    /\ next_to_prepare = total_tracks

-----------------------------------------------------------------------------
(* Claims about the playback loop in album-spread mode *)

\* C26: in album-spread mode with a non-empty album map, the polling loop
\* has not ended and the staging root has not been deleted while the player
\* process is running and reports a playlist position, whatever positions
\* it reported before, a move back to an earlier position included.
C26_LoopOutlivesPlayback ==
    (/\ albums # <<>>
     /\ mpv_alive
     /\ mpv_pos # None) =>
        /\ pc # "exited"
        /\ tmp_root_exists

\* the album of the playlist entry at current_pos
PlayingAlbum == album_by_index[current_pos + 1]

\* the album chosen by the last call of queue_more
LastChosen == album_by_index[Len(album_by_index)]

\* the albums of the last recent_albums_size tracks that started playing,
\* once that many tracks have started
StartedWindow ==
    {album_by_index[i] : i \in {j \in 1..(current_pos + 1) :
                                   j > current_pos + 1 - recent_albums_size}}

\* the first two parts of C28: recent_albums holds at most
\* recent_albums_size entries, and the album of the track that started
\* playing is its last entry once the next album is chosen, unless a rescan
\* no longer found that album in the library
WindowKept ==
    /\ Len(recent_albums) <= recent_albums_size
    /\ (current_pos >= 0 /\ PlayingAlbum \in SeqToSet(albums)) =>
          /\ recent_albums # <<>>
          /\ recent_albums[Len(recent_albums)] = PlayingAlbum

\* C28 as stated: in album-spread mode the album of a track joins
\* recent_albums when the track starts playing and before the next album is
\* chosen, recent_albums never holds more than recent_albums_size entries,
\* and the album chosen for the next queued track is none of the last
\* recent_albums_size albums that started playing as long as some album of
\* the library lies outside that window.
C28_AvoidsStartedAlbums ==
    pc = "loop" =>
        /\ WindowKept
        /\ (/\ highest_appended = current_pos + 1
            /\ current_pos + 1 >= recent_albums_size
            /\ \E a \in SeqToSet(albums) : a \notin StartedWindow) =>
                LastChosen \notin StartedWindow

\* C28 amended: as above, the window being the last recent_albums_size
\* entries of recent_albums, that is the albums that started playing (or
\* that the cache of an earlier run named) and that every rescan of the
\* library since has found again; in particular the album chosen is not the
\* one now playing when that album is still in the library.
C28_AlbumRotation ==
    pc = "loop" =>
        /\ WindowKept
        /\ (/\ highest_appended = current_pos + 1
            /\ \E a \in SeqToSet(albums) : a \notin InWindow) =>
                /\ LastChosen \notin InWindow
                /\ (current_pos >= 0 /\ PlayingAlbum \in SeqToSet(albums)) =>
                      LastChosen # PlayingAlbum

\* the third track is queued while the second plays, with a full window of
\* two albums and a third album outside it
C28_Witness ==
    /\ pc = "loop"
    /\ current_pos = 1
    /\ highest_appended = 2
    /\ recent_albums_size = 2
    /\ recent_albums = <<album_by_index[1], album_by_index[2]>>
    /\ album_by_index[1] # album_by_index[2]
    /\ LastChosen \in SeqToSet(albums) \ InWindow

====
